---- MODULE Spec2Model ----
(***************************************************************************)
(* SimpleMarkSweepGC (rpython/memory/gc/marksweep.py): a non-moving,       *)
(* stop-the-world mark-sweep collector with finalizers and weak            *)
(* references.                                                             *)
(*                                                                         *)
(* Objects are identified by their allocation number 1..MaxObj: raw_malloc *)
(* hands out a fresh address on every call, so a freed address is never    *)
(* confused with a later object.  The header word `tid` of an object, its  *)
(* one pointer field `slot` and the length field of a variable-size object *)
(* are the raw memory the collector reads and writes; they are fields of   *)
(* the record `gc` next to the attributes of the collector object (self).  *)
(* A word is LONG_BIT = 32 bits wide.                                      *)
(***************************************************************************)
EXTENDS Integers, Sequences, FiniteSets, TLC

\* Bounds of the model.
MaxObj == 3          \* number of raw_malloc calls in a run
MaxEntries == 2      \* number of finalizer entries registered in a run

Addr == 1..MaxObj
NULL == 0

\* marksweep.py:8-13
LONG_BIT == 32
first_gcflag == 2 ^ (LONG_BIT \div 2)
GCFLAG_SURVIVING == first_gcflag
GCFLAG_EXTERNAL == first_gcflag * 2
GCFLAG_FINALIZER_REACHABLE == first_gcflag * 4

\* marksweep.py:25-26
heap_growth_factor == 2
initial_heap_size == 200

\* gcheaderbuilder.size_gc_header: HDR is one Signed word (marksweep.py:16),
\* LONG_BIT / 8 bytes.
size_gc_header == 4

(***************************************************************************)
(* Type metadata (external collaborator: one entry per type id).           *)
(*   type 1: fixed size, one GC pointer field                              *)
(*   type 2: fixed size, one weak pointer field (a weakref object)         *)
(*   type 3: variable size array of words without pointers                 *)
(***************************************************************************)
TypeIds == {1, 2, 3}
fixed_size(typeid) == CASE typeid = 1 -> 196 [] typeid = 2 -> 12 [] OTHER -> 12
is_varsize(typeid) == typeid = 3
varsize_item_sizes(typeid) == IF typeid = 3 THEN 4 ELSE 0
has_gcptr(typeid) == typeid = 1
has_weakptr(typeid) == typeid = 2
Lengths == {0, 48, 536870908, 536870912}

\* rarithmetic.ovfcheck on a signed word of LONG_BIT bits, for operands >= 0:
\* the largest word, and whether a product or a sum exceeds it
sys_maxint == (2 ^ (LONG_BIT - 2) - 1) * 2 + 1
mul_overflows(a, b) == a > 0 /\ b > sys_maxint \div a
add_overflows(a, b) == b > sys_maxint - a

\* --------------------------------------------------------------- words
\* tid & flag != 0, tid | flag, tid & ~flag for a one-bit flag
has_flag(tid, flag) == (tid \div flag) % 2 = 1
set_flag(tid, flag) == IF has_flag(tid, flag) THEN tid ELSE tid + flag
clear_flag(tid, flag) == IF has_flag(tid, flag) THEN tid - flag ELSE tid

\* Mutant of combine: the type id is stored in one byte.
combine_byte(typeid16, flags) == (typeid16 % 256) + flags

\* marksweep.py:90-91 (llop.combine_ushort: the low half word is the type id)
combine(typeid16, flags) == (typeid16 % first_gcflag) + flags

\* marksweep.py:84-87 (llop.extract_ushort of the header word)
get_type_id(g, addr) == g.tid[addr] % first_gcflag

\* marksweep.py:80-82
init_gc_object(g, addr, typeid16, flags) ==
    [g EXCEPT !.tid[addr] = combine(typeid16, flags)]

\* marksweep.py:77-78
init_gc_object_immortal(g, addr, typeid16, flags) ==
    init_gc_object(g, addr, typeid16,
                   set_flag(set_flag(flags, GCFLAG_EXTERNAL), GCFLAG_SURVIVING))

\* marksweep.py:120-122
surviving(g, obj) == has_flag(g.tid[obj], GCFLAG_SURVIVING)

\* GCBase.get_size: the size of the object behind the header, from its type's
\* size function (fixed part plus length * item size).
get_size(g, obj) ==
    LET typeid == get_type_id(g, obj)
    IN  fixed_size(typeid)
          + (IF is_varsize(typeid) THEN g.length[obj] * varsize_item_sizes(typeid) ELSE 0)

\* GCBase.trace: the non-null GC pointers stored in the object, in field order.
\* A weak pointer field is not traced.
trace(g, addr) ==
    IF has_gcptr(get_type_id(g, addr)) /\ g.slot[addr] # NULL
    THEN <<g.slot[addr]>> ELSE <<>>

\* --------------------------------------------------------------- tracer
\* Mutant of trace_callbacks: the callback sets the flag and forgets to push.
RECURSIVE trace_callbacks_nopush(_, _)
trace_callbacks_nopush(ptrs, ms) ==
    IF ptrs = <<>> THEN ms
    ELSE trace_callbacks_nopush(Tail(ptrs),
             [ms EXCEPT !.tid[Head(ptrs)] = set_flag(@, GCFLAG_SURVIVING)])

\* Mutant of trace_callbacks: the callback pushes a new object twice.
RECURSIVE trace_callbacks_push_twice(_, _)
trace_callbacks_push_twice(ptrs, ms) ==
    IF ptrs = <<>> THEN ms
    ELSE LET addr == Head(ptrs)
         IN  IF ~has_flag(ms.tid[addr], GCFLAG_SURVIVING)
             THEN trace_callbacks_push_twice(Tail(ptrs),
                      [stack |-> ms.stack \o <<addr, addr>>,
                       tid |-> [ms.tid EXCEPT ![addr] = set_flag(@, GCFLAG_SURVIVING)]])
             ELSE trace_callbacks_push_twice(Tail(ptrs), ms)

\* marksweep.py:93-99, applied to each pointer trace() reports.
\* ms is the pair [stack, tid].
RECURSIVE trace_callbacks(_, _)
trace_callbacks(ptrs, ms) ==
    IF ptrs = <<>> THEN ms
    ELSE LET addr == Head(ptrs)
         IN  IF ~has_flag(ms.tid[addr], GCFLAG_SURVIVING)
             THEN trace_callbacks(Tail(ptrs),
                      [stack |-> Append(ms.stack, addr),
                       tid |-> [ms.tid EXCEPT ![addr] = set_flag(@, GCFLAG_SURVIVING)]])
             ELSE trace_callbacks(Tail(ptrs), ms)

\* marksweep.py:108-110.  g.ntrace[addr] counts the calls of trace(addr, ...)
\* at line 110 in the current cycle.
RECURSIVE mark_loop(_, _)
mark_loop(g, stack) ==
    IF stack = <<>> THEN g
    ELSE LET addr == stack[Len(stack)]
             ms == trace_callbacks(trace(g, addr),
                       [stack |-> SubSeq(stack, 1, Len(stack) - 1), tid |-> g.tid])
         IN  mark_loop([g EXCEPT !.tid = ms.tid, !.ntrace[addr] = @ + 1], ms.stack)

\* Mutant of mark_recursive: the root is pushed without its flag being set.
mark_recursive_unflagged(root_addr, g) == mark_loop(g, <<root_addr>>)

\* marksweep.py:101-111
mark_recursive(root_addr, g) ==
    mark_loop([g EXCEPT !.tid[root_addr] = set_flag(@, GCFLAG_SURVIVING)],
              <<root_addr>>)

\* marksweep.py:113-114: enumerate_all_roots calls mark_recursive on every root.
RECURSIVE mark(_, _)
mark(g, rs) ==
    IF rs = {} THEN g
    ELSE LET r == CHOOSE x \in rs : \A y \in rs : x <= y
         IN  mark(mark_recursive(r, g), rs \ {r})

\* ------------------------------------------------------------ finalizers
\* GCBase.mark_finalizer_to_run: queue the object for the finalizer queue
\* fq_index.  run_finalizers holds the queued (object, queue index) pairs in
\* the order of the calls.
mark_finalizer_to_run(g, fq_index, x) ==
    [g EXCEPT !.run_finalizers = Append(@, <<x, fq_index>>),
              !.nsched[x] = @ + 1]

\* Mutant of finalizer_partition: the registry is consumed from its back end.
RECURSIVE finalizer_partition_from_back(_)
finalizer_partition_from_back(st) ==
    IF st.old = <<>> THEN st
    ELSE LET x == st.old[Len(st.old) - 1]
             fq_nr == st.old[Len(st.old)]
             rest == SubSeq(st.old, 1, Len(st.old) - 2)
         IN  IF surviving(st.g, x)
             THEN finalizer_partition_from_back([st EXCEPT !.old = rest,
                      !.new_with_finalizer = @ \o <<x, fq_nr>>])
             ELSE finalizer_partition_from_back([st EXCEPT !.old = rest,
                      !.g = mark_finalizer_to_run(st.g, fq_nr, x),
                      !.finalising = Append(@, x)])

\* Mutant of finalizer_partition: a scheduled entry is requeued as well.
RECURSIVE finalizer_partition_keeps_entry(_)
finalizer_partition_keeps_entry(st) ==
    IF st.old = <<>> THEN st
    ELSE LET x == st.old[1]
             fq_nr == st.old[2]
             rest == SubSeq(st.old, 3, Len(st.old))
         IN  IF surviving(st.g, x)
             THEN finalizer_partition_keeps_entry([st EXCEPT !.old = rest,
                      !.new_with_finalizer = @ \o <<x, fq_nr>>])
             ELSE finalizer_partition_keeps_entry([st EXCEPT !.old = rest,
                      !.new_with_finalizer = @ \o <<x, fq_nr>>,
                      !.g = mark_finalizer_to_run(st.g, fq_nr, x),
                      !.finalising = Append(@, x)])

\* Mutant of finalizer_partition: a kept entry is requeued with the queue
\* index of an entry made at allocation.
RECURSIVE finalizer_partition_resets_index(_)
finalizer_partition_resets_index(st) ==
    IF st.old = <<>> THEN st
    ELSE LET x == st.old[1]
             fq_nr == st.old[2]
             rest == SubSeq(st.old, 3, Len(st.old))
         IN  IF surviving(st.g, x)
             THEN finalizer_partition_resets_index([st EXCEPT !.old = rest,
                      !.new_with_finalizer = @ \o <<x, -1>>])
             ELSE finalizer_partition_resets_index([st EXCEPT !.old = rest,
                      !.g = mark_finalizer_to_run(st.g, fq_nr, x),
                      !.finalising = Append(@, x)])

\* Mutant of finalizer_partition: an about-to-die object is re-marked as soon
\* as it is classified.
RECURSIVE finalizer_partition_remarks_eagerly(_)
finalizer_partition_remarks_eagerly(st) ==
    IF st.old = <<>> THEN st
    ELSE LET x == st.old[1]
             fq_nr == st.old[2]
             rest == SubSeq(st.old, 3, Len(st.old))
         IN  IF surviving(st.g, x)
             THEN finalizer_partition_remarks_eagerly([st EXCEPT !.old = rest,
                      !.new_with_finalizer = @ \o <<x, fq_nr>>])
             ELSE finalizer_partition_remarks_eagerly([st EXCEPT !.old = rest,
                      !.g = mark_recursive(x, mark_finalizer_to_run(st.g, fq_nr, x)),
                      !.finalising = Append(@, x)])

\* marksweep.py:174-184: st is [g, old, new_with_finalizer, finalising]
RECURSIVE finalizer_partition(_)
finalizer_partition(st) ==
    IF st.old = <<>> THEN st
    ELSE LET x == st.old[1]
             fq_nr == st.old[2]
             rest == SubSeq(st.old, 3, Len(st.old))
         IN  IF surviving(st.g, x)
             THEN finalizer_partition([st EXCEPT !.old = rest,
                      !.new_with_finalizer = @ \o <<x, fq_nr>>])
             ELSE finalizer_partition([st EXCEPT !.old = rest,
                      !.g = mark_finalizer_to_run(st.g, fq_nr, x),
                      !.finalising = Append(@, x)])

\* Mutant of revive: the objects about to be finalized get the flag, the
\* objects they reference are not traced.
RECURSIVE revive_shallow(_, _)
revive_shallow(g, finalising) ==
    IF finalising = <<>> THEN g
    ELSE revive_shallow([g EXCEPT !.tid[Head(finalising)] = set_flag(@, GCFLAG_SURVIVING)],
                        Tail(finalising))

\* Mutant of revive: the objects about to be finalized are not marked again.
revive_none(g, finalising) == g

\* marksweep.py:187-189
RECURSIVE revive(_, _)
revive(g, finalising) ==
    IF finalising = <<>> THEN g
    ELSE revive(mark_recursive(Head(finalising), g), Tail(finalising))

\* marksweep.py:170-193
deal_with_objects_with_finalizers(g) ==
    LET st == finalizer_partition([g |-> g, old |-> g.objects_with_finalizers,
                                   new_with_finalizer |-> <<>>, finalising |-> <<>>])
        g2 == revive(st.g, st.finalising)
    IN  [g2 EXCEPT !.objects_with_finalizers = st.new_with_finalizer]

\* ------------------------------------------------------------- weakrefs
\* Mutant of weakref_loop: a dead referent is forgotten without clearing the
\* slot, and a container with a live referent is not registered again.
RECURSIVE weakref_loop_forgets(_, _, _)
weakref_loop_forgets(g, old, new_with_weakref) ==
    IF old = <<>> THEN [g EXCEPT !.objects_with_weakrefs = new_with_weakref]
    ELSE weakref_loop_forgets(g, SubSeq(old, 1, Len(old) - 1), new_with_weakref)

\* Mutant of weakref_loop: the slot of a dead container is cleared.
RECURSIVE weakref_loop_nulls_dead(_, _, _)
weakref_loop_nulls_dead(g, old, new_with_weakref) ==
    IF old = <<>> THEN [g EXCEPT !.objects_with_weakrefs = new_with_weakref]
    ELSE LET obj == old[Len(old)]
             rest == SubSeq(old, 1, Len(old) - 1)
             pointing_to == g.slot[obj]
         IN  IF ~surviving(g, obj)
             THEN weakref_loop_nulls_dead([g EXCEPT !.slot[obj] = NULL], rest,
                                          new_with_weakref)
             ELSE IF pointing_to = NULL
             THEN weakref_loop_nulls_dead(g, rest, new_with_weakref)
             ELSE IF surviving(g, pointing_to)
                  THEN weakref_loop_nulls_dead(g, rest, Append(new_with_weakref, obj))
                  ELSE weakref_loop_nulls_dead([g EXCEPT !.slot[obj] = NULL], rest,
                                               new_with_weakref)

\* Mutant of weakref_loop: a surviving container whose slot is NULL, or is
\* set to NULL, stays registered.
RECURSIVE weakref_loop_keeps_null(_, _, _)
weakref_loop_keeps_null(g, old, new_with_weakref) ==
    IF old = <<>> THEN [g EXCEPT !.objects_with_weakrefs = new_with_weakref]
    ELSE LET obj == old[Len(old)]
             rest == SubSeq(old, 1, Len(old) - 1)
             pointing_to == g.slot[obj]
         IN  IF ~surviving(g, obj) THEN weakref_loop_keeps_null(g, rest, new_with_weakref)
             ELSE IF pointing_to = NULL
             THEN weakref_loop_keeps_null(g, rest, Append(new_with_weakref, obj))
             ELSE IF surviving(g, pointing_to)
                  THEN weakref_loop_keeps_null(g, rest, Append(new_with_weakref, obj))
                  ELSE weakref_loop_keeps_null([g EXCEPT !.slot[obj] = NULL], rest,
                                               Append(new_with_weakref, obj))

\* Mutant of weakref_loop: a container stays registered, its slot untouched,
\* when the object it points at dies.
RECURSIVE weakref_loop_keeps_dangling(_, _, _)
weakref_loop_keeps_dangling(g, old, new_with_weakref) ==
    IF old = <<>> THEN [g EXCEPT !.objects_with_weakrefs = new_with_weakref]
    ELSE LET obj == old[Len(old)]
             rest == SubSeq(old, 1, Len(old) - 1)
             pointing_to == g.slot[obj]
         IN  IF ~surviving(g, obj)
             THEN weakref_loop_keeps_dangling(g, rest, new_with_weakref)
             ELSE IF pointing_to = NULL
             THEN weakref_loop_keeps_dangling(g, rest, new_with_weakref)
             ELSE weakref_loop_keeps_dangling(g, rest, Append(new_with_weakref, obj))

\* Mutant of weakref_loop: the slot is also cleared when the object it points
\* at is queued for finalization.
RECURSIVE weakref_loop_clears_queued(_, _, _)
weakref_loop_clears_queued(g, old, new_with_weakref) ==
    IF old = <<>> THEN [g EXCEPT !.objects_with_weakrefs = new_with_weakref]
    ELSE LET obj == old[Len(old)]
             rest == SubSeq(old, 1, Len(old) - 1)
             pointing_to == g.slot[obj]
             queued == \E i \in 1..Len(g.run_finalizers) :
                          g.run_finalizers[i][1] = pointing_to
         IN  IF ~surviving(g, obj)
             THEN weakref_loop_clears_queued(g, rest, new_with_weakref)
             ELSE IF pointing_to = NULL
             THEN weakref_loop_clears_queued(g, rest, new_with_weakref)
             ELSE IF surviving(g, pointing_to) /\ ~queued
                  THEN weakref_loop_clears_queued(g, rest, Append(new_with_weakref, obj))
                  ELSE weakref_loop_clears_queued([g EXCEPT !.slot[obj] = NULL], rest,
                                                  new_with_weakref)

\* marksweep.py:200-211: old and new_with_weakref are stacks (top = last)
RECURSIVE weakref_loop(_, _, _)
weakref_loop(g, old, new_with_weakref) ==
    IF old = <<>> THEN [g EXCEPT !.objects_with_weakrefs = new_with_weakref]
    ELSE LET obj == old[Len(old)]
             rest == SubSeq(old, 1, Len(old) - 1)
             pointing_to == g.slot[obj]
         IN  IF ~surviving(g, obj) THEN weakref_loop(g, rest, new_with_weakref)
             ELSE IF pointing_to = NULL THEN weakref_loop(g, rest, new_with_weakref)
             ELSE IF surviving(g, pointing_to)
                  THEN weakref_loop(g, rest, Append(new_with_weakref, obj))
                  ELSE weakref_loop([g EXCEPT !.slot[obj] = NULL], rest, new_with_weakref)

\* marksweep.py:195-213
invalidate_weakrefs(g) == weakref_loop(g, g.objects_with_weakrefs, <<>>)

\* --------------------------------------------------------------- sweep
\* llmemory.raw_free: the memory of the object is gone; the model keeps no
\* content for it.
raw_free(g, addr) ==
    [g EXCEPT !.nfree[addr] = @ + 1, !.tid[addr] = 0, !.slot[addr] = NULL,
              !.length[addr] = 0]

\* Mutant of sweep_loop: after freeing an object the loop steps over the next
\* address and keeps it unexamined.
RECURSIVE sweep_loop_skips(_, _, _)
sweep_loop_skips(g, prev_heap, new_heap) ==
    IF prev_heap = <<>> THEN [g EXCEPT !.address_space = new_heap]
    ELSE LET addr == Head(prev_heap)
             rest == Tail(prev_heap)
         IN  IF has_flag(g.tid[addr], GCFLAG_SURVIVING)
             THEN sweep_loop_skips(
                      [g EXCEPT !.tid[addr] = clear_flag(@, GCFLAG_SURVIVING)],
                      rest, Append(new_heap, addr))
             ELSE IF rest = <<>>
                  THEN sweep_loop_skips(
                      raw_free([g EXCEPT !.cur_heap_size = @ - get_size(g, addr)], addr),
                      rest, new_heap)
                  ELSE sweep_loop_skips(
                      raw_free([g EXCEPT !.cur_heap_size = @ - get_size(g, addr),
                                         !.tid[Head(rest)] = clear_flag(@, GCFLAG_SURVIVING)],
                               addr),
                      Tail(rest), Append(new_heap, Head(rest)))

\* Mutant of sweep_loop: the header size is subtracted as well as the size
\* get_size reports, twice over.
RECURSIVE sweep_loop_oversubtracts(_, _, _)
sweep_loop_oversubtracts(g, prev_heap, new_heap) ==
    IF prev_heap = <<>> THEN [g EXCEPT !.address_space = new_heap]
    ELSE LET addr == Head(prev_heap)
         IN  IF has_flag(g.tid[addr], GCFLAG_SURVIVING)
             THEN sweep_loop_oversubtracts(
                      [g EXCEPT !.tid[addr] = clear_flag(@, GCFLAG_SURVIVING)],
                      Tail(prev_heap), Append(new_heap, addr))
             ELSE sweep_loop_oversubtracts(
                      raw_free([g EXCEPT !.cur_heap_size =
                                    @ - (get_size(g, addr) + 2 * size_gc_header)], addr),
                      Tail(prev_heap), new_heap)

\* Mutant of sweep_loop: a survivor keeps its SURVIVING flag.
RECURSIVE sweep_loop_keeps_flag(_, _, _)
sweep_loop_keeps_flag(g, prev_heap, new_heap) ==
    IF prev_heap = <<>> THEN [g EXCEPT !.address_space = new_heap]
    ELSE LET addr == Head(prev_heap)
         IN  IF has_flag(g.tid[addr], GCFLAG_SURVIVING)
             THEN sweep_loop_keeps_flag(g, Tail(prev_heap), Append(new_heap, addr))
             ELSE sweep_loop_keeps_flag(
                      raw_free([g EXCEPT !.cur_heap_size = @ - get_size(g, addr)], addr),
                      Tail(prev_heap), new_heap)

\* Mutant of sweep_loop: a freed address is appended to the new registry too.
RECURSIVE sweep_loop_keeps_dead(_, _, _)
sweep_loop_keeps_dead(g, prev_heap, new_heap) ==
    IF prev_heap = <<>> THEN [g EXCEPT !.address_space = new_heap]
    ELSE LET addr == Head(prev_heap)
         IN  IF has_flag(g.tid[addr], GCFLAG_SURVIVING)
             THEN sweep_loop_keeps_dead(
                      [g EXCEPT !.tid[addr] = clear_flag(@, GCFLAG_SURVIVING)],
                      Tail(prev_heap), Append(new_heap, addr))
             ELSE sweep_loop_keeps_dead(
                      raw_free([g EXCEPT !.cur_heap_size = @ - get_size(g, addr)], addr),
                      Tail(prev_heap), Append(new_heap, addr))

\* marksweep.py:127-137
RECURSIVE sweep_loop(_, _, _)
sweep_loop(g, prev_heap, new_heap) ==
    IF prev_heap = <<>> THEN [g EXCEPT !.address_space = new_heap]
    ELSE LET addr == Head(prev_heap)
         IN  IF has_flag(g.tid[addr], GCFLAG_SURVIVING)
             THEN sweep_loop([g EXCEPT !.tid[addr] = clear_flag(@, GCFLAG_SURVIVING)],
                             Tail(prev_heap), Append(new_heap, addr))
             ELSE sweep_loop(raw_free([g EXCEPT !.cur_heap_size = @ - get_size(g, addr)],
                                      addr),
                             Tail(prev_heap), new_heap)

\* Mutant of sweep: the lock is released as soon as the sweep is done.
sweep_unlocks(g) ==
    [sweep_loop(g, g.address_space, <<>>) EXCEPT !.collection_lock = FALSE]

\* Mutant of sweep: the flag is cleared in every header, registered or not.
sweep_every_header(g) ==
    LET g1 == sweep_loop(g, g.address_space, <<>>)
    IN  [g1 EXCEPT !.tid = [a \in Addr |-> clear_flag(g1.tid[a], GCFLAG_SURVIVING)]]

\* marksweep.py:124-140
sweep(g) == sweep_loop(g, g.address_space, <<>>)

\* ----------------------------------------------------------- collect
\* Mutant of collect_locked: collect() does not look at the lock.
collect_unguarded(g) == FALSE

\* marksweep.py:150-151
collect_locked(g) == g.collection_lock

\* marksweep.py:152
collect_enter(g) == [g EXCEPT !.collection_lock = TRUE]

\* marksweep.py:153-158, the phases of one cycle before the sweep
collect_mark(g, rs) == mark(g, rs)
collect_finalizers(g) ==
    IF g.objects_with_finalizers # <<>> THEN deal_with_objects_with_finalizers(g) ELSE g
\* Mutant of collect_weakrefs: the sweep runs first, the weak slots are looked
\* at afterwards.
collect_weakrefs_after_sweep(g) ==
    IF g.objects_with_weakrefs # <<>> THEN invalidate_weakrefs(sweep(g)) ELSE sweep(g)

collect_weakrefs(g) ==
    IF g.objects_with_weakrefs # <<>> THEN invalidate_weakrefs(g) ELSE g

\* Mutant of collect_return: the threshold is never set below the initial one.
collect_return_floor(g) ==
    [g EXCEPT !.prev_heap_size = IF g.cur_heap_size < initial_heap_size
                                 THEN initial_heap_size ELSE g.cur_heap_size,
              !.collection_lock = FALSE]

\* Mutant of collect_return: the threshold is set, the lock is not released.
collect_return_keeps_lock(g) == [g EXCEPT !.prev_heap_size = g.cur_heap_size]

\* Mutant of collect_return: the lock is released, the threshold is not set.
collect_return_keeps_prev(g) == [g EXCEPT !.collection_lock = FALSE]

\* marksweep.py:166-167
collect_return(g) ==
    [g EXCEPT !.prev_heap_size = g.cur_heap_size, !.collection_lock = FALSE]

\* marksweep.py:149-167 called while finalizers run: execute_finalizers is
\* itself not reentrant, so a cycle started there runs no callback.
collect_nested(g, rs) ==
    IF collect_locked(g) THEN g
    ELSE collect_return(sweep(collect_weakrefs(collect_finalizers(
             collect_mark(collect_enter(g), rs)))))

\* ------------------------------------------------------------ allocator
\* Mutant of needs_collect: the comparison is not strict.
needs_collect_ge(g, totalsize) ==
    totalsize + g.cur_heap_size >= heap_growth_factor * g.prev_heap_size

\* marksweep.py:37 and 65
needs_collect(g, totalsize) ==
    totalsize + g.cur_heap_size > heap_growth_factor * g.prev_heap_size

\* Mutant of malloc_fixedsize_tail: the two registrations test each other's
\* argument.
malloc_fixedsize_tail_swapped(g, typeid, size, needs_finalizer, contains_weakptr) ==
    LET totalsize == size_gc_header + size
        result == g.nalloc + 1
        g1 == init_gc_object([g EXCEPT !.nalloc = result], result, typeid, 0)
    IN  [g1 EXCEPT
           !.address_space = Append(@, result),
           !.objects_with_finalizers =
               IF contains_weakptr THEN @ \o <<result, -1>> ELSE @,
           !.nreg[result] = IF needs_finalizer THEN @ + 1 ELSE @,
           !.objects_with_weakrefs =
               IF needs_finalizer THEN Append(@, result) ELSE @,
           !.cur_heap_size = @ + totalsize]

\* Mutant of malloc_fixedsize_tail: the new object is born marked.
malloc_fixedsize_tail_marked(g, typeid, size, needs_finalizer, contains_weakptr) ==
    LET totalsize == size_gc_header + size
        result == g.nalloc + 1
        g1 == init_gc_object([g EXCEPT !.nalloc = result], result, typeid,
                             GCFLAG_SURVIVING)
    IN  [g1 EXCEPT
           !.address_space = Append(@, result),
           !.objects_with_finalizers =
               IF needs_finalizer THEN @ \o <<result, -1>> ELSE @,
           !.nreg[result] = IF needs_finalizer THEN @ + 1 ELSE @,
           !.objects_with_weakrefs =
               IF contains_weakptr THEN Append(@, result) ELSE @,
           !.cur_heap_size = @ + totalsize]

\* marksweep.py:39-53 (raw_malloc returns the next fresh address; the caller
\* gets the object with its pointer field cleared)
malloc_fixedsize_tail(g, typeid, size, needs_finalizer, contains_weakptr) ==
    LET totalsize == size_gc_header + size
        result == g.nalloc + 1
        g1 == init_gc_object([g EXCEPT !.nalloc = result], result, typeid, 0)
    IN  [g1 EXCEPT
           !.address_space = Append(@, result),
           !.objects_with_finalizers =
               IF needs_finalizer THEN @ \o <<result, -1>> ELSE @,
           !.nreg[result] = IF needs_finalizer THEN @ + 1 ELSE @,
           !.objects_with_weakrefs =
               IF contains_weakptr THEN Append(@, result) ELSE @,
           !.cur_heap_size = @ + totalsize]

\* marksweep.py:39-53 when raw_malloc returns NULL and the write through it
\* at line 40 does not stop the program: NULL is put in the registry (and its
\* object address in the finalizer and weak registries) and paid for.
malloc_fixedsize_null(g, typeid, size, needs_finalizer, contains_weakptr) ==
    LET totalsize == size_gc_header + size
        result == NULL
    IN  [g EXCEPT
           !.address_space = Append(@, result),
           !.objects_with_finalizers =
               IF needs_finalizer THEN @ \o <<result, -1>> ELSE @,
           !.objects_with_weakrefs =
               IF contains_weakptr THEN Append(@, result) ELSE @,
           !.cur_heap_size = @ + totalsize]

\* marksweep.py:67-75 when raw_malloc returns NULL, likewise.
malloc_varsize_null(g, typeid, length, size, itemsize) ==
    LET totalsize == (size_gc_header + size) + itemsize * length
        result == NULL
    IN  [g EXCEPT
           !.address_space = Append(@, result),
           !.cur_heap_size = @ + totalsize]

\* What the write of a header through NULL (marksweep.py:40, 68 calling
\* 81-82) can do: the memory fault ends the program, or the write goes
\* through and the allocation carries on.
write_through_NULL == {"SIGSEGV", "written"}

\* Mutant of malloc_varsize_tail: the object is not put in the registry.
malloc_varsize_tail_unregistered(g, typeid, length, size, itemsize) ==
    LET totalsize == (size_gc_header + size) + itemsize * length
        result == g.nalloc + 1
        g1 == init_gc_object([g EXCEPT !.nalloc = result], result, typeid, 0)
    IN  [g1 EXCEPT
           !.length[result] = length,
           !.cur_heap_size = @ + totalsize]

\* marksweep.py:67-75
malloc_varsize_tail(g, typeid, length, size, itemsize) ==
    LET totalsize == (size_gc_header + size) + itemsize * length
        result == g.nalloc + 1
        g1 == init_gc_object([g EXCEPT !.nalloc = result], result, typeid, 0)
    IN  [g1 EXCEPT
           !.address_space = Append(@, result),
           !.length[result] = length,
           !.cur_heap_size = @ + totalsize]

\* marksweep.py:59-62: the try block raises OverflowError
varsize_overflows(length, size, itemsize) ==
    \/ mul_overflows(itemsize, length)
    \/ add_overflows(size_gc_header + size, itemsize * length)

\* marksweep.py:63: `raise memoryError`.  The module binds no name memoryError
\* (marksweep.py:1-8 import none, and none is assigned), so evaluating the
\* operand of raise fails with NameError; no MemoryError is raised.
raise_memoryError == "NameError"

\* Mutant of register_finalizer: an object that has an entry gets no second.
register_finalizer_once(g, fq_index, gcobj) ==
    IF \E i \in 1..Len(g.objects_with_finalizers) :
          i % 2 = 1 /\ g.objects_with_finalizers[i] = gcobj
    THEN [g EXCEPT !.nreg[gcobj] = @ + 1]
    ELSE [g EXCEPT !.objects_with_finalizers = @ \o <<gcobj, fq_index>>,
                   !.nreg[gcobj] = @ + 1]

\* marksweep.py:142-147
register_finalizer(g, fq_index, gcobj) ==
    [g EXCEPT !.objects_with_finalizers = @ \o <<gcobj, fq_index>>,
              !.nreg[gcobj] = @ + 1]

\* ================================================================ state
VARIABLES
    gc,      \* the collector object and the memory it manages
    roots,   \* the objects the root enumeration yields
    pc,      \* where control is: in the mutator, or in a phase of collect()
    pend,    \* the allocation that called collect() and waits for its return
    obs      \* observations of the run that the properties below refer to

vars == <<gc, roots, pc, pend, obs>>

\* marksweep.py:18-28 (setup), with an empty memory
InitGC ==
    [address_space |-> <<>>,
     objects_with_weakrefs |-> <<>>,
     objects_with_finalizers |-> <<>>,
     collection_lock |-> FALSE,
     prev_heap_size |-> initial_heap_size,
     cur_heap_size |-> 0,
     run_finalizers |-> <<>>,
     nalloc |-> 0,
     tid |-> [a \in Addr |-> 0],
     slot |-> [a \in Addr |-> NULL],
     length |-> [a \in Addr |-> 0],
     nfree |-> [a \in Addr |-> 0],
     nreg |-> [a \in Addr |-> 0],
     nsched |-> [a \in Addr |-> 0],
     ntrace |-> [a \in Addr |-> 0]]

NoPend == [kind |-> "none", typeid |-> 0, needs_finalizer |-> FALSE, length |-> 0]
NoNest == [called |-> FALSE, noop |-> TRUE]
NoRes == [valid |-> FALSE, address_space |-> <<>>, cur_heap_size |-> 0,
          scheduled |-> FALSE]

InitObs ==
    [g0 |-> InitGC, roots0 |-> {}, collected |-> FALSE, nest |-> NoNest,
     res |-> NoRes, prev_res |-> NoRes, exc |-> "none"]

Init ==
    /\ gc = InitGC
    /\ roots = {}
    /\ pc = "mutator"
    /\ pend = NoPend
    /\ obs = InitObs

\* The objects reachable from rs through GC pointer fields (not weak ones).
RECURSIVE Closure(_, _)
Closure(g, seen) ==
    LET next == seen \cup ({g.slot[a] : a \in {b \in seen : has_gcptr(get_type_id(g, b))}}
                            \ {NULL})
    IN  IF next = seen THEN seen ELSE Closure(g, next)

Reach(g, rs) == Closure(g, rs)

RECURSIVE SumSeq(_)
SumSeq(q) == IF q = <<>> THEN 0 ELSE Head(q) + SumSeq(Tail(q))

TotalReg(g) == SumSeq([i \in 1..MaxObj |-> g.nreg[i]])

AtMutator == pc \in {"mutator", "returned"}

\* A mutator step ends what was observed of the last collect() or allocation.
ObsMutator ==
    [obs EXCEPT !.g0 = InitGC, !.roots0 = {}, !.nest = NoNest,
                !.res = NoRes, !.prev_res = NoRes, !.exc = "none"]

\* collect() passes its guard: what the cycle starts from.
ObsCycle == [obs EXCEPT !.g0 = gc, !.roots0 = roots, !.nest = NoNest,
                        !.collected = TRUE, !.exc = "none"]

\* ------------------------------------------------------------- mutator
\* marksweep.py:30-53
MallocFixedsize(typeid, needs_finalizer) ==
    /\ AtMutator
    /\ gc.nalloc < MaxObj
    /\ needs_finalizer => TotalReg(gc) < MaxEntries
    /\ LET totalsize == size_gc_header + fixed_size(typeid)
           called == needs_collect(gc, totalsize)
       IN  IF called /\ ~collect_locked(gc)
           THEN /\ gc' = collect_enter(gc)
                /\ pc' = "mark"
                /\ pend' = [kind |-> "fixed", typeid |-> typeid,
                            needs_finalizer |-> needs_finalizer, length |-> 0]
                /\ obs' = [ObsCycle EXCEPT !.res = NoRes, !.prev_res = NoRes]
                /\ UNCHANGED roots
           ELSE /\ gc' = malloc_fixedsize_tail(gc, typeid, fixed_size(typeid),
                                               needs_finalizer, has_weakptr(typeid))
                /\ roots' = roots \cup {gc.nalloc + 1}
                /\ pc' = "mutator"
                /\ obs' = ObsMutator
                /\ UNCHANGED pend

\* marksweep.py:55-75.  When the size computation overflows the call ends with
\* the exception of line 63, which the caller observes (obs.exc) next to the
\* collector state the call started from (obs.g0).
MallocVarsize(length) ==
    /\ AtMutator
    /\ gc.nalloc < MaxObj
    /\ LET totalsize == (size_gc_header + fixed_size(3)) + varsize_item_sizes(3) * length
           called == needs_collect(gc, totalsize)
       IN  IF varsize_overflows(length, fixed_size(3), varsize_item_sizes(3))
           THEN /\ obs' = [ObsMutator EXCEPT !.exc = raise_memoryError, !.g0 = gc]
                /\ pc' = "mutator"
                /\ UNCHANGED <<gc, roots, pend>>
           ELSE IF called /\ ~collect_locked(gc)
           THEN /\ gc' = collect_enter(gc)
                /\ pc' = "mark"
                /\ pend' = [kind |-> "var", typeid |-> 3,
                            needs_finalizer |-> FALSE, length |-> length]
                /\ obs' = [ObsCycle EXCEPT !.res = NoRes, !.prev_res = NoRes]
                /\ UNCHANGED roots
           ELSE /\ gc' = malloc_varsize_tail(gc, 3, length, fixed_size(3),
                                             varsize_item_sizes(3))
                /\ roots' = roots \cup {gc.nalloc + 1}
                /\ pc' = "mutator"
                /\ obs' = ObsMutator
                /\ UNCHANGED pend

\* Mutant of MallocResume: the growth check is made again after collect()
\* has returned, and collect() is called again while it fails.
MallocResume_retry ==
    /\ pc = "alloc"
    /\ IF needs_collect(gc, (size_gc_header + fixed_size(pend.typeid))
                               + varsize_item_sizes(pend.typeid) * pend.length)
       THEN /\ gc' = collect_enter(gc)
            /\ pc' = "mark"
            /\ obs' = ObsCycle
            /\ UNCHANGED <<roots, pend>>
       ELSE /\ gc' = IF pend.kind = "fixed"
                     THEN malloc_fixedsize_tail(gc, pend.typeid, fixed_size(pend.typeid),
                                                pend.needs_finalizer,
                                                has_weakptr(pend.typeid))
                     ELSE malloc_varsize_tail(gc, pend.typeid, pend.length,
                                              fixed_size(pend.typeid),
                                              varsize_item_sizes(pend.typeid))
            /\ roots' = roots \cup {gc.nalloc + 1}
            /\ pc' = "mutator"
            /\ pend' = NoPend
            /\ obs' = ObsMutator

\* The allocation that called collect() goes on after it returns.
MallocResume ==
    /\ pc = "alloc"
    /\ gc' = IF pend.kind = "fixed"
             THEN malloc_fixedsize_tail(gc, pend.typeid, fixed_size(pend.typeid),
                                        pend.needs_finalizer, has_weakptr(pend.typeid))
             ELSE malloc_varsize_tail(gc, pend.typeid, pend.length,
                                      fixed_size(pend.typeid),
                                      varsize_item_sizes(pend.typeid))
    /\ roots' = roots \cup {gc.nalloc + 1}
    /\ pc' = "mutator"
    /\ pend' = NoPend
    /\ obs' = ObsMutator

\* marksweep.py:142-147, called by the mutator on an object it holds
RegisterFinalizer(o) ==
    /\ AtMutator
    /\ o \in Reach(gc, roots)
    /\ TotalReg(gc) < MaxEntries
    /\ gc' = register_finalizer(gc, 0, o)
    /\ pc' = "mutator"
    /\ obs' = ObsMutator
    /\ UNCHANGED <<roots, pend>>

\* The mutator stores a pointer it holds into the empty pointer field of an
\* object it holds.
WriteField(o, p) ==
    /\ AtMutator
    /\ o \in Reach(gc, roots)
    /\ has_gcptr(get_type_id(gc, o)) \/ has_weakptr(get_type_id(gc, o))
    /\ gc.slot[o] = NULL
    /\ p \in Reach(gc, roots)
    /\ gc' = [gc EXCEPT !.slot[o] = p]
    /\ pc' = "mutator"
    /\ obs' = ObsMutator
    /\ UNCHANGED <<roots, pend>>

\* The mutator forgets a root.  A prebuilt object is a static root for good.
DropRoot(o) ==
    /\ AtMutator
    /\ o \in roots
    /\ ~has_flag(gc.tid[o], GCFLAG_EXTERNAL)
    /\ roots' = roots \ {o}
    /\ pc' = "mutator"
    /\ obs' = ObsMutator
    /\ UNCHANGED <<gc, pend>>

\* marksweep.py:77-78, called for a prebuilt object before the program
\* allocates: the object lies outside the memory raw_malloc hands out, it is
\* not in the allocation registry, and the root enumeration yields it.
InitImmortal(typeid) ==
    /\ AtMutator
    /\ gc.nalloc = 0
    /\ gc' = init_gc_object_immortal([gc EXCEPT !.nalloc = 1], 1, typeid, 0)
    /\ roots' = roots \cup {1}
    /\ pc' = "mutator"
    /\ obs' = ObsMutator
    /\ UNCHANGED pend

\* marksweep.py:39-42 and 67-70 when raw_malloc fails, that is returns NULL:
\* no statement tests the result, the header is written through it.  The
\* call is one that needs no collection, or one whose collection is over.
\* The program does not go on from either outcome (pc "fault", "undefined").
RawMallocFails(typeid, needs_finalizer, length) ==
    /\ \/ /\ AtMutator
          /\ ~needs_collect(gc, (size_gc_header + fixed_size(typeid))
                                   + varsize_item_sizes(typeid) * length)
       \/ /\ pc = "alloc"
          /\ pend.typeid = typeid
          /\ pend.needs_finalizer = needs_finalizer
          /\ pend.length = length
    /\ \E outcome \in write_through_NULL :
          IF outcome = "SIGSEGV"
          THEN /\ gc' = gc
               /\ pc' = "fault"
               /\ obs' = [obs EXCEPT !.exc = "SIGSEGV", !.g0 = gc]
          ELSE /\ gc' = IF is_varsize(typeid)
                        THEN malloc_varsize_null(gc, typeid, length, fixed_size(typeid),
                                                 varsize_item_sizes(typeid))
                        ELSE malloc_fixedsize_null(gc, typeid, fixed_size(typeid),
                                                   needs_finalizer, has_weakptr(typeid))
               /\ pc' = "undefined"
               /\ obs' = [obs EXCEPT !.exc = "none", !.g0 = gc]
    /\ UNCHANGED <<roots, pend>>

\* ------------------------------------------------------------- collect
\* marksweep.py:149-152, called by the mutator
Collect ==
    /\ AtMutator
    /\ ~collect_locked(gc)
    /\ gc' = collect_enter(gc)
    /\ pc' = "mark"
    /\ obs' = ObsCycle
    /\ UNCHANGED <<roots, pend>>

\* marksweep.py:153
DoMark ==
    /\ pc = "mark"
    /\ gc' = collect_mark(gc, roots)
    /\ pc' = "finalizers"
    /\ UNCHANGED <<roots, pend, obs>>

\* marksweep.py:154-155
DoFinalizers ==
    /\ pc = "finalizers"
    /\ gc' = collect_finalizers(gc)
    /\ pc' = "weakrefs"
    /\ UNCHANGED <<roots, pend, obs>>

\* marksweep.py:157-158
DoWeakrefs ==
    /\ pc = "weakrefs"
    /\ gc' = collect_weakrefs(gc)
    /\ pc' = "sweep"
    /\ UNCHANGED <<roots, pend, obs>>

\* marksweep.py:164; the trace counts of the cycle end with its mark phases.
DoSweep ==
    /\ pc = "sweep"
    /\ gc' = [sweep(gc) EXCEPT !.ntrace = [a \in Addr |-> 0]]
    /\ pc' = "execute"
    /\ UNCHANGED <<roots, pend, obs>>

\* marksweep.py:165, GCBase.execute_finalizers: the callbacks of the queued
\* objects run in the order they were queued.  A callback may do nothing,
\* make its object reachable again, or allocate.
FinalizerReturns ==
    /\ pc = "execute"
    /\ gc.run_finalizers # <<>>
    /\ gc' = [gc EXCEPT !.run_finalizers = Tail(@)]
    /\ UNCHANGED <<roots, pc, pend, obs>>

FinalizerResurrects ==
    /\ pc = "execute"
    /\ gc.run_finalizers # <<>>
    /\ gc' = [gc EXCEPT !.run_finalizers = Tail(@)]
    /\ roots' = roots \cup {Head(gc.run_finalizers)[1]}
    /\ UNCHANGED <<pc, pend, obs>>

FinalizerAllocates ==
    /\ pc = "execute"
    /\ gc.run_finalizers # <<>>
    /\ gc.nalloc + (IF pend.kind = "none" THEN 0 ELSE 1) < MaxObj
    /\ LET g1 == [gc EXCEPT !.run_finalizers = Tail(@)]
           totalsize == size_gc_header + fixed_size(1)
           called == needs_collect(g1, totalsize)
           g2 == IF called THEN collect_nested(g1, roots) ELSE g1
       IN  /\ gc' = malloc_fixedsize_tail(g2, 1, fixed_size(1), FALSE, FALSE)
           /\ obs' = IF called
                     THEN [obs EXCEPT !.nest = [called |-> TRUE,
                                                noop |-> obs.nest.noop /\ g2 = g1]]
                     ELSE obs
    /\ UNCHANGED <<roots, pc, pend>>

\* marksweep.py:166-167
CollectReturn ==
    /\ pc = "execute"
    /\ gc.run_finalizers = <<>>
    /\ gc' = collect_return(gc)
    /\ pc' = IF pend.kind = "none" THEN "returned" ELSE "alloc"
    /\ obs' = [obs EXCEPT
                 !.prev_res = obs.res,
                 !.res = [valid |-> pend.kind = "none",
                          address_space |-> gc.address_space,
                          cur_heap_size |-> gc.cur_heap_size,
                          scheduled |-> gc.nsched # obs.g0.nsched]]
    /\ UNCHANGED <<roots, pend>>

Next ==
    \/ \E t \in {1, 2}, f \in BOOLEAN : MallocFixedsize(t, f /\ t = 1)
    \/ \E n \in Lengths : MallocVarsize(n)
    \/ MallocResume
    \/ \E o \in Addr, p \in Addr : WriteField(o, p)
    \/ \E o \in Addr : DropRoot(o)
    \/ Collect
    \/ DoMark
    \/ DoFinalizers
    \/ DoWeakrefs
    \/ DoSweep
    \/ FinalizerReturns
    \/ FinalizerResurrects
    \/ FinalizerAllocates
    \/ CollectReturn

Spec == Init /\ [][Next]_vars

\* A program that registers finalizers with register_finalizer as well as at
\* allocation: its objects are all of type 1 and its finalizer callbacks
\* return without touching the heap.
NextReg ==
    \/ \E f \in BOOLEAN : MallocFixedsize(1, f)
    \/ MallocResume
    \/ \E o \in Addr : RegisterFinalizer(o)
    \/ \E o \in Addr, p \in Addr : WriteField(o, p)
    \/ \E o \in Addr : DropRoot(o)
    \/ Collect
    \/ DoMark
    \/ DoFinalizers
    \/ DoWeakrefs
    \/ DoSweep
    \/ FinalizerReturns
    \/ CollectReturn

SpecReg == Init /\ [][NextReg]_vars

\* The program with one prebuilt (immortal) object.
NextImm ==
    \/ Next
    \/ InitImmortal(1)

SpecImm == Init /\ [][NextImm]_vars

\* collect() is straight-line code called by the one thread of the mutator:
\* once it has passed its guard each phase follows the one before
\* (marksweep.py:152-167), and execute_finalizers calls the next queued
\* callback when one returns; callbacks are taken to return.  The mutator is
\* under no obligation to do anything.
CollectStep ==
    \/ DoMark
    \/ DoFinalizers
    \/ DoWeakrefs
    \/ DoSweep
    \/ FinalizerReturns
    \/ FinalizerResurrects
    \/ FinalizerAllocates
    \/ CollectReturn
CollectRuns == WF_vars(CollectStep)

\* The finalizer registry after the objects of F were allocated with
\* needs_finalizer, in allocation order (marksweep.py:44-47).
RECURSIVE AllocatedWithFinalizer(_)
AllocatedWithFinalizer(F) ==
    IF F = {} THEN <<>>
    ELSE LET m == CHOOSE x \in F : \A y \in F : x <= y
         IN  <<m, -1>> \o AllocatedWithFinalizer(F \ {m})

\* A heap of MaxObj - 1 objects of type 1 as malloc_fixedsize leaves them
\* (marksweep.py:30-53), the objects of F allocated with a finalizer, with
\* the pointer fields sl the mutator wrote and the roots rs it still holds.
\* Two such allocations need no collection; a third one has called
\* collect() first, which freed nothing and left the threshold at 400.
LiveHeap(sl, F) ==
    LET n == MaxObj - 1
        totalsize == size_gc_header + fixed_size(1)
    IN  [InitGC EXCEPT
           !.nalloc = n,
           !.address_space = [i \in 1..n |-> i],
           !.tid = [a \in Addr |-> IF a <= n THEN combine(1, 0) ELSE 0],
           !.slot = [a \in Addr |-> IF a <= n THEN sl[a] ELSE NULL],
           !.objects_with_finalizers = AllocatedWithFinalizer(F),
           !.nreg = [a \in Addr |-> IF a \in F THEN 1 ELSE 0],
           !.prev_heap_size = IF n <= 2 THEN initial_heap_size ELSE 2 * totalsize,
           !.cur_heap_size = n * totalsize]

InitLive ==
    \E sl \in [1..(MaxObj - 1) -> 0..(MaxObj - 1)],
       F \in SUBSET (1..(MaxObj - 1)), rs \in SUBSET (1..(MaxObj - 1)) :
       /\ Cardinality(F) <= MaxEntries
       /\ gc = LiveHeap(sl, F)
       /\ roots = rs
       /\ pc = "mutator"
       /\ pend = NoPend
       /\ obs = [InitObs EXCEPT !.collected = MaxObj - 1 > 2]

\* The collections of a program that holds such a heap, and drops roots.
NextLive ==
    \/ \E o \in Addr : DropRoot(o)
    \/ Collect
    \/ DoMark
    \/ DoFinalizers
    \/ DoWeakrefs
    \/ DoSweep
    \/ FinalizerReturns
    \/ FinalizerResurrects
    \/ FinalizerAllocates
    \/ CollectReturn

SpecLive == InitLive /\ [][NextLive]_vars /\ CollectRuns

\* ------------------------------------------------------- header words
\* The type ids of a 16-bit group member (llgroup.HALFWORD) and the flag
\* arguments: every sum of a set of the three flags.
TypeId16 == 0..(2 ^ 16 - 1)
GCFLAGS == {GCFLAG_SURVIVING, GCFLAG_EXTERNAL, GCFLAG_FINALIZER_REACHABLE}
FlagWord(F) ==
    (IF GCFLAG_SURVIVING \in F THEN GCFLAG_SURVIVING ELSE 0)
      + (IF GCFLAG_EXTERNAL \in F THEN GCFLAG_EXTERNAL ELSE 0)
      + (IF GCFLAG_FINALIZER_REACHABLE \in F THEN GCFLAG_FINALIZER_REACHABLE ELSE 0)

\* marksweep.py:80-82: the header of object 1 has been written by
\* init_gc_object(addr, typeid16, flags); pend holds the arguments.
InitHdr ==
    \E t \in TypeId16, F \in SUBSET GCFLAGS :
       /\ gc = init_gc_object([InitGC EXCEPT !.nalloc = 1], 1, t, FlagWord(F))
       /\ roots = {}
       /\ pc = "hdr"
       /\ pend = [kind |-> "init_gc_object", typeid |-> t, flags |-> F]
       /\ obs = InitObs

\* marksweep.py:99 and 106: hdr.tid |= GCFLAG_SURVIVING
HdrMark ==
    /\ pc \in {"hdr", "hdr_marked", "hdr_swept"}
    /\ gc' = [gc EXCEPT !.tid[1] = set_flag(@, GCFLAG_SURVIVING)]
    /\ pc' = "hdr_marked"
    /\ UNCHANGED <<roots, pend, obs>>

\* marksweep.py:131: hdr.tid = hdr.tid & ~GCFLAG_SURVIVING
HdrSweep ==
    /\ pc \in {"hdr", "hdr_marked", "hdr_swept"}
    /\ gc' = [gc EXCEPT !.tid[1] = clear_flag(@, GCFLAG_SURVIVING)]
    /\ pc' = "hdr_swept"
    /\ UNCHANGED <<roots, pend, obs>>

NextHdr ==
    \/ HdrMark
    \/ HdrSweep

SpecHdr == InitHdr /\ [][NextHdr]_vars

\* The program on a machine whose raw_malloc can fail.
NextFail ==
    \/ Next
    \/ \E t \in TypeIds, f \in BOOLEAN :
          RawMallocFails(t, f /\ t = 1, IF t = 3 THEN 48 ELSE 0)

SpecFail == Init /\ [][NextFail]_vars

\* ========================================================= properties
Range(q) == {q[i] : i \in 1..Len(q)}

\* The objects with an entry in the finalizer registry g.objects_with_finalizers.
FinObjs(g) ==
    {g.objects_with_finalizers[i] :
        i \in {j \in 1..Len(g.objects_with_finalizers) : j % 2 = 1}}

\* sweep() of the current cycle has finished / collect() has returned.
Swept == pc \in {"execute", "returned", "alloc"}
Returned == pc \in {"returned", "alloc"}

\* The heap the cycle started from (meaningful while Swept or in a phase).
Registry0 == Range(obs.g0.address_space)
Reach0 == Reach(obs.g0, obs.roots0)
\* finalizer-registered objects the roots did not reach, and what the cycle
\* keeps: everything reachable from the roots or from such an object
Dying0 == FinObjs(obs.g0) \ Reach0
Kept0 == Reach(obs.g0, obs.roots0 \cup Dying0)
FreedNow(o) == gc.nfree[o] = 1 /\ obs.g0.nfree[o] = 0

\* C1: after the sweep of a cycle, every object that was reachable from a
\* root when the cycle started is still in the allocation registry and has
\* not been passed to raw_free.
C1_ReachableSurvive ==
    Swept => \A o \in Reach0 : o \in Range(gc.address_space) /\ gc.nfree[o] = 0

\* A cycle has freed some object and kept an object that is reachable only
\* through another one.
C1_Witness ==
    /\ pc = "returned"
    /\ \E o \in Reach0 \ obs.roots0 : o \in Range(gc.address_space)
    /\ \E p \in Addr : FreedNow(p)

\* C2 as stated: after a cycle every registry object that was not reachable
\* from a root and has no finalizer entry of its own is gone from the registry
\* and was freed exactly once.
C2_Original ==
    Swept => \A o \in Registry0 :
                (o \notin Reach0 /\ o \notin FinObjs(obs.g0))
                   => (o \notin Range(gc.address_space) /\ gc.nfree[o] = 1)

\* C2 amended: after a cycle every registry object that was reachable neither
\* from a root nor from an unreachable object with a pending finalizer entry
\* is gone from the registry and has been freed; raw_free is never called
\* twice for an address and no freed address is in the registry.
C2_UnreachableFreedOnce ==
    /\ Swept => \A o \in Registry0 \ Kept0 :
                   o \notin Range(gc.address_space) /\ gc.nfree[o] = 1
    /\ \A o \in Addr : gc.nfree[o] <= 1
    /\ \A o \in Range(gc.address_space) : gc.nfree[o] = 0

\* A cycle has freed an unreachable object while it kept another unreachable
\* object without finalizer entry, which a dying finalizer object references.
C2_Witness ==
    /\ pc = "returned"
    /\ \E o \in Registry0 \ Kept0 : FreedNow(o)
    /\ \E o \in Kept0 \ (Reach0 \cup FinObjs(obs.g0)) : o \in Range(gc.address_space)

\* The allocation cost of a registry object: header plus payload.
Cost(g, o) == size_gc_header + get_size(g, o)
RECURSIVE SumCost(_, _)
SumCost(g, S) ==
    IF S = {} THEN 0
    ELSE LET o == CHOOSE x \in S : TRUE IN Cost(g, o) + SumCost(g, S \ {o})

\* C3: after every sweep cur_heap_size is the sum of the allocation costs
\* (header plus payload) of exactly the objects in the allocation registry.
C3_HeapSizeIsSum ==
    Swept => gc.cur_heap_size = SumCost(gc, Range(gc.address_space))

\* C4: an object with one finalizer entry is scheduled at most once in the
\* whole run; from the moment it is scheduled (so while any callback runs)
\* its entry is out of the registry; and a cycle that starts with the object
\* registered and unreachable schedules it.
C4_FinalizerOnce ==
    \A o \in Addr : gc.nreg[o] = 1 =>
        /\ gc.nsched[o] <= 1
        /\ gc.nsched[o] = 1 => o \notin FinObjs(gc)
        /\ (pc \in {"weakrefs", "sweep", "execute", "returned", "alloc"} /\ o \in Dying0)
              => gc.nsched[o] = 1

\* An object was scheduled in an earlier cycle, its finalizer made it a root
\* again, and a later cycle has run without scheduling it again.
C4_Witness ==
    /\ pc = "returned"
    /\ \E o \in obs.roots0 : /\ obs.g0.nsched[o] = 1 /\ gc.nsched[o] = 1
                             /\ gc.nreg[o] = 1
                             /\ o \in Range(gc.address_space)

\* C5: a collect() called from a finalizer callback because the allocation
\* in the callback exceeds the growth threshold changes nothing (no registry,
\* no counter, not prev_heap_size, not the lock, no header); the lock is
\* still held afterwards, and when the outer collect() returns it has set
\* prev_heap_size to cur_heap_size and released the lock.
C5_NestedCollectNoop ==
    obs.nest.called =>
        /\ obs.nest.noop
        /\ pc = "execute" => gc.collection_lock
        /\ Returned => (~gc.collection_lock /\ gc.prev_heap_size = gc.cur_heap_size)

\* The outer collect() has returned after a callback's allocation called
\* collect().
C5_Witness == Returned /\ obs.nest.called /\ gc.nalloc > obs.g0.nalloc

\* The registered weak containers when the cycle started.
WeakReg0 == Range(obs.g0.objects_with_weakrefs)

\* C6 as stated: after a cycle, the weak slot of every registered container
\* that survived reads NULL if the object it referenced is unreachable from
\* the roots.
C6_Original ==
    Returned => \A w \in WeakReg0 \cap Range(gc.address_space) :
                   (obs.g0.slot[w] # NULL /\ obs.g0.slot[w] \notin Reach(gc, roots))
                      => gc.slot[w] = NULL

\* C6 amended: after a cycle, the weak slot of every registered container
\* that survived reads NULL if the object it referenced did not survive the
\* cycle, that is, was reachable neither from the roots nor from an
\* unreachable object with a pending finalizer entry.
C6_WeakNulled ==
    Swept => \A w \in WeakReg0 \cap Kept0 :
                (obs.g0.slot[w] # NULL /\ obs.g0.slot[w] \notin Kept0)
                   => (gc.slot[w] = NULL /\ w \in Range(gc.address_space))

\* A cycle has cleared the weak slot of a surviving container and freed the
\* referent.
C6_Witness ==
    /\ pc = "returned"
    /\ \E w \in WeakReg0 : /\ w \in Range(gc.address_space)
                           /\ obs.g0.slot[w] # NULL
                           /\ gc.slot[w] = NULL
                           /\ FreedNow(obs.g0.slot[w])

\* C7 as stated: a cycle leaves unchanged every weak slot of a registered
\* container whose referent is reachable from the roots, and the container
\* stays in the weak registry.
C7_Original ==
    Swept => \A w \in WeakReg0 :
                (obs.g0.slot[w] # NULL /\ obs.g0.slot[w] \in Reach0)
                   => /\ gc.slot[w] = obs.g0.slot[w]
                      /\ w \in Range(gc.objects_with_weakrefs)

\* C7 amended: a cycle leaves unchanged the weak slot of every weak container
\* that itself survives the cycle and whose referent is reachable from the
\* roots, and such a container that was registered stays in the weak registry
\* for the next cycle.
C7_WeakPreserved ==
    Swept => \A w \in Registry0 \cap Kept0 :
                (/\ has_weakptr(get_type_id(obs.g0, w))
                 /\ obs.g0.slot[w] # NULL
                 /\ obs.g0.slot[w] \in Reach0)
                   => /\ gc.slot[w] = obs.g0.slot[w]
                      /\ w \in WeakReg0 => w \in Range(gc.objects_with_weakrefs)

\* A cycle that freed something has kept the slot and the registration of a
\* weak container with a reachable referent.
C7_Witness ==
    /\ pc = "returned"
    /\ \E w \in WeakReg0 : /\ obs.g0.slot[w] \in Reach0
                           /\ gc.slot[w] = obs.g0.slot[w]
                           /\ w \in Range(gc.objects_with_weakrefs)
    /\ \E p \in Addr : FreedNow(p)

\* The cost of the allocation that waits for collect().
PendCost(pd) ==
    (size_gc_header + fixed_size(pd.typeid)) + varsize_item_sizes(pd.typeid) * pd.length
\* A mutator allocation that returns without calling collect() / that calls it.
MallocDirect == AtMutator /\ gc'.nalloc = gc.nalloc + 1
MallocCollects == AtMutator /\ pc' = "mark" /\ pend'.kind # "none"

\* C8: an allocation calls collect() exactly when its cost plus cur_heap_size
\* is greater than 2 * prev_heap_size, and then before the raw allocation; as
\* long as no collection has run (prev_heap_size = 200) the allocations that
\* return without one leave a cumulative cost of at most 400, and the first
\* collection is called by the allocation that takes it over 400; that
\* allocation returns only after the collection has.
C8_GrowthTrigger ==
    [][/\ MallocDirect =>
             Cost(gc', gc'.nalloc) + gc.cur_heap_size <= 2 * gc.prev_heap_size
       /\ MallocCollects =>
             /\ PendCost(pend') + gc.cur_heap_size > 2 * gc.prev_heap_size
             /\ gc'.nalloc = gc.nalloc
             /\ gc'.address_space = gc.address_space
       /\ (MallocDirect /\ ~obs.collected) =>
             /\ gc'.cur_heap_size = SumCost(gc', 1..gc'.nalloc)
             /\ gc'.cur_heap_size <= 400
       /\ (MallocCollects /\ ~obs.collected) =>
             /\ gc.cur_heap_size = SumCost(gc, 1..gc.nalloc)
             /\ gc.cur_heap_size <= 400
             /\ gc.cur_heap_size + PendCost(pend') > 400
       /\ (pc = "alloc" /\ gc'.nalloc = gc.nalloc + 1) =>
             /\ obs.collected
             /\ ~gc.collection_lock
             /\ gc.run_finalizers = <<>>
      ]_vars

\* The first collection of a run was called by an allocation at a cumulative
\* cost of exactly 400, which the allocation before it had reached without
\* calling collect(); the collection has returned, the allocation has not.
C8_Witness ==
    /\ pc = "alloc"
    /\ obs.g0.cur_heap_size = 400
    /\ obs.g0.prev_heap_size = 200
    /\ \A o \in Addr : obs.g0.nfree[o] = 0
    /\ gc.nalloc = obs.g0.nalloc

\* C9 as stated: the second of two consecutive collect() calls leaves the
\* registry and cur_heap_size as the first left them.
C9_Original ==
    (obs.prev_res.valid /\ obs.res.valid) =>
        /\ obs.res.address_space = obs.prev_res.address_space
        /\ obs.res.cur_heap_size = obs.prev_res.cur_heap_size

\* C9 amended: the second of two consecutive collect() calls leaves the
\* registry and cur_heap_size as the first left them, provided the first
\* call scheduled no finalizer.
C9_Idempotent ==
    (obs.prev_res.valid /\ obs.res.valid /\ ~obs.prev_res.scheduled) =>
        /\ obs.res.address_space = obs.prev_res.address_space
        /\ obs.res.cur_heap_size = obs.prev_res.cur_heap_size

\* Two consecutive collect() calls have returned; the first freed an object
\* and kept another, and scheduled no finalizer.
C9_Witness ==
    /\ pc = "returned"
    /\ obs.prev_res.valid /\ obs.res.valid /\ ~obs.prev_res.scheduled
    /\ obs.prev_res.address_space # <<>>
    /\ \E o \in Addr : obs.g0.nfree[o] = 1
    /\ obs.g0.objects_with_finalizers # <<>>

\* C10: an object with a finalizer entry that is unreachable when cycle N
\* starts is kept by the sweep of cycle N and scheduled in cycle N; an object
\* scheduled in an earlier cycle that has no entry any more and that nothing
\* kept by the cycle references is freed by the cycle (so by cycle N+1 if
\* nothing references it after cycle N).
C10_OneExtraCycle ==
    Swept =>
        /\ \A o \in Dying0 : /\ o \in Range(gc.address_space)
                             /\ gc.nfree[o] = 0
                             /\ gc.nsched[o] = obs.g0.nsched[o] + 1
        /\ \A o \in Registry0 :
              (obs.g0.nsched[o] >= 1 /\ o \notin FinObjs(obs.g0) /\ o \notin Kept0)
                 => (FreedNow(o) /\ o \notin Range(gc.address_space))

\* The scenario's last cycle: an object without finalizer was freed by an
\* earlier cycle, which kept and scheduled the finalizer object it
\* referenced; this cycle has freed the finalizer object.
C10_Witness ==
    /\ pc = "returned"
    /\ \E a, b \in Addr :
          /\ gc.nreg[a] = 0 /\ obs.g0.nfree[a] = 1
          /\ gc.nreg[b] = 1 /\ obs.g0.nsched[b] = 1 /\ FreedNow(b)
          /\ obs.prev_res.valid /\ a \notin Range(obs.prev_res.address_space)
          /\ b \in Range(obs.prev_res.address_space)
          /\ obs.prev_res.scheduled

\* C11: a collect() that passes the guard goes through its phases in the
\* order mark, finalizer partition and re-mark (a no-op on an empty finalizer
\* registry), weak invalidation (a no-op on an empty weak registry), sweep,
\* finalizer callbacks, and then sets prev_heap_size and releases the lock.
\* Objects are freed by the sweep step only, finalizers are scheduled by the
\* finalizer step only, weak slots are cleared and the weak registry rebuilt
\* by the weak step only, and a callback is taken from the queue only after
\* the sweep.
C11_PhaseOrder ==
    [][/\ (~gc.collection_lock /\ gc'.collection_lock) =>
             (pc' = "mark" /\ gc' = collect_enter(gc))
       /\ pc = "mark" =>
             /\ pc' = "finalizers"
             /\ [gc' EXCEPT !.tid = gc.tid, !.ntrace = gc.ntrace] = gc
       /\ pc = "finalizers" =>
             /\ pc' = "weakrefs"
             /\ gc.objects_with_finalizers = <<>> => gc' = gc
             /\ [gc' EXCEPT !.tid = gc.tid, !.nsched = gc.nsched,
                            !.ntrace = gc.ntrace,
                            !.run_finalizers = gc.run_finalizers,
                            !.objects_with_finalizers = gc.objects_with_finalizers] = gc
       /\ pc = "weakrefs" =>
             /\ pc' = "sweep"
             /\ gc.objects_with_weakrefs = <<>> => gc' = gc
             /\ [gc' EXCEPT !.slot = gc.slot,
                            !.objects_with_weakrefs = gc.objects_with_weakrefs] = gc
       /\ pc = "sweep" =>
             /\ pc' = "execute"
             /\ gc'.run_finalizers = gc.run_finalizers
             /\ gc'.objects_with_finalizers = gc.objects_with_finalizers
             /\ gc'.objects_with_weakrefs = gc.objects_with_weakrefs
             /\ gc'.collection_lock
       /\ gc'.nfree # gc.nfree => pc = "sweep"
       /\ gc'.nsched # gc.nsched => pc = "finalizers"
       /\ Len(gc'.run_finalizers) < Len(gc.run_finalizers) => pc = "execute"
       /\ pc = "execute" => (pc' = "execute" /\ gc'.collection_lock) \/
                                (pc' \in {"returned", "alloc"} /\ gc.run_finalizers = <<>>)
       /\ (gc'.prev_heap_size # gc.prev_heap_size
              \/ (gc.collection_lock /\ ~gc'.collection_lock)) =>
             /\ pc = "execute" /\ pc' \in {"returned", "alloc"}
             /\ gc' = collect_return(gc)
      ]_vars

\* A cycle over a non-empty finalizer registry and a non-empty weak registry
\* has scheduled a finalizer, freed an object and returned.
C11_Witness ==
    /\ pc = "returned"
    /\ obs.g0.objects_with_finalizers # <<>>
    /\ obs.g0.objects_with_weakrefs # <<>>
    /\ gc.nsched # obs.g0.nsched
    /\ \E p \in Addr : FreedNow(p)

\* The objects initialised through init_gc_object_immortal.
Immortals == {o \in 1..gc.nalloc : has_flag(gc.tid[o], GCFLAG_EXTERNAL)}

C13_RegistryExact ==
    /\ Range(gc.address_space) = {o \in 1..gc.nalloc : gc.nfree[o] = 0}
    /\ Cardinality(Range(gc.address_space)) = Len(gc.address_space)

\* After a cycle that freed an object the mutator has allocated again: the
\* registry holds an older survivor and the new object.
C13_Witness ==
    /\ pc = "mutator"
    /\ \E o \in Addr : gc.nfree[o] = 1 /\ o < gc.nalloc
    /\ Len(gc.address_space) >= 2
    /\ gc.address_space[Len(gc.address_space)] = gc.nalloc

\* C14: a malloc_varsize call whose size computation overflows fails with
\* an out-of-memory error (MemoryError) before the growth check and the raw
\* allocation: no collection was started and the registries, cur_heap_size
\* and prev_heap_size are as they were at the call.
C14_OverflowOOM ==
    obs.exc # "none" =>
        /\ obs.exc = "MemoryError"
        /\ gc = obs.g0
        /\ pc = "mutator" /\ ~gc.collection_lock

\* C15: an allocation calls collect() at most once.  collect() is entered
\* from the mutator only, never by an allocation whose collect() has already
\* returned; once that collect() has returned the allocation makes its raw
\* allocation and registers the object without another growth check, also
\* when its cost plus cur_heap_size still exceeds the threshold; an
\* allocation in a finalizer callback, which calls collect() once, completes
\* in the same step.
C15_OneCollectPerAlloc ==
    [][/\ pc = "alloc" =>
             /\ pc' = "mutator"
             /\ gc'.nalloc = gc.nalloc + 1
             /\ gc'.address_space = Append(gc.address_space, gc.nalloc + 1)
             /\ gc'.prev_heap_size = gc.prev_heap_size
             /\ gc'.nfree = gc.nfree
             /\ ~gc'.collection_lock
       /\ pc' = "mark" => (AtMutator /\ ~gc.collection_lock)
       /\ pc' = "alloc" => (pc = "execute" /\ pend.kind # "none" /\ pend' = pend)
       /\ (pc = "execute" /\ pc' = "execute" /\ gc'.nalloc # gc.nalloc) =>
             /\ gc'.nalloc = gc.nalloc + 1
             /\ gc'.address_space = Append(gc.address_space, gc.nalloc + 1)
      ]_vars

\* An allocation has returned after its one collect(): the heap it leaves is
\* still larger than the growth threshold that collect() set.
C15_Witness ==
    /\ pc = "mutator"
    /\ obs.collected
    /\ pend = NoPend
    /\ gc.address_space # <<>>
    /\ gc.address_space[Len(gc.address_space)] = gc.nalloc
    /\ gc.cur_heap_size > heap_growth_factor * gc.prev_heap_size

\* C16: a step in which the mutator's malloc_fixedsize makes its allocation
\* (directly or after its collect() has returned) appends the new address to
\* the allocation registry, sets the header to the type id without flags,
\* adds header size plus size to cur_heap_size, appends the finalizer entry
\* (object, -1) iff needs_finalizer, appends the object to the weak registry
\* iff contains_weakptr, and changes nothing else of the collector.
C16_AllocPostState ==
    [][(/\ pc \in {"mutator", "returned", "alloc"}
        /\ gc'.nalloc = gc.nalloc + 1
        /\ ~is_varsize(get_type_id(gc', gc'.nalloc))) =>
          LET new == gc'.nalloc
              t == get_type_id(gc', new)
              needs_finalizer == gc'.nreg[new] = 1
          IN  /\ pc = "alloc" =>
                    (t = pend.typeid /\ needs_finalizer = pend.needs_finalizer)
              /\ gc'.address_space = Append(gc.address_space, new)
              /\ gc'.tid = [gc.tid EXCEPT ![new] = t]
              /\ gc'.cur_heap_size = gc.cur_heap_size + size_gc_header + fixed_size(t)
              /\ gc'.objects_with_finalizers =
                    IF needs_finalizer THEN gc.objects_with_finalizers \o <<new, -1>>
                    ELSE gc.objects_with_finalizers
              /\ gc'.objects_with_weakrefs =
                    IF has_weakptr(t) THEN Append(gc.objects_with_weakrefs, new)
                    ELSE gc.objects_with_weakrefs
              /\ [gc' EXCEPT !.address_space = gc.address_space, !.tid = gc.tid,
                             !.cur_heap_size = gc.cur_heap_size, !.nalloc = gc.nalloc,
                             !.nreg = gc.nreg,
                             !.objects_with_finalizers = gc.objects_with_finalizers,
                             !.objects_with_weakrefs = gc.objects_with_weakrefs] = gc
      ]_vars

\* After a collection the mutator has allocated an object with a finalizer:
\* it is the last element of the allocation registry, its entry is the last
\* of the finalizer registry, and an object allocated with a weak pointer is
\* in the weak registry.
C16_Witness ==
    /\ pc = "mutator"
    /\ obs.collected
    /\ gc.address_space # <<>>
    /\ gc.address_space[Len(gc.address_space)] = gc.nalloc
    /\ gc.tid[gc.nalloc] = 1
    /\ Len(gc.objects_with_finalizers) >= 2
    /\ SubSeq(gc.objects_with_finalizers, Len(gc.objects_with_finalizers) - 1,
              Len(gc.objects_with_finalizers)) = <<gc.nalloc, -1>>
    /\ \E w \in Range(gc.objects_with_weakrefs) : has_weakptr(get_type_id(gc, w))

\* C17: cur_heap_size is never negative, so the ll_assert of sweep, which
\* looks at the counter after every subtraction, never fails.
C17_HeapSizeNonNegative == gc.cur_heap_size >= 0

\* A sweep has freed every object of the heap: the counter is at its lowest.
C17_Witness ==
    /\ Swept
    /\ gc.address_space = <<>>
    /\ Cardinality({o \in Addr : FreedNow(o)}) >= 2

\* C18: the collection lock is held in every phase of a cycle and as long
\* as a scheduled finalizer callback has not run; it is free again only
\* once prev_heap_size has been set to cur_heap_size; and every collect()
\* called by an allocation inside a finalizer callback has found the lock
\* held and done nothing.
C18_LockHeldInFinalizers ==
    /\ (pc \in {"mark", "finalizers", "weakrefs", "sweep", "execute"}
           \/ gc.run_finalizers # <<>>) => gc.collection_lock
    /\ Returned => (~gc.collection_lock /\ gc.prev_heap_size = gc.cur_heap_size)
    /\ obs.nest.called => (obs.nest.noop /\ pc \in {"execute", "returned", "alloc"})

\* A callback has allocated and called collect() while another scheduled
\* callback is still waiting: the lock is held.
C18_Witness ==
    /\ pc = "execute"
    /\ obs.nest.called
    /\ gc.run_finalizers # <<>>
    /\ gc.collection_lock

\* The entries (object, queue index) of a finalizer registry, in its order.
RECURSIVE Pairs(_)
Pairs(q) ==
    IF q = <<>> THEN <<>> ELSE <<<<q[1], q[2]>>>> \o Pairs(SubSeq(q, 3, Len(q)))

\* The entries of the registry at the start of the cycle whose object the
\* roots do not reach, in registry order.
DyingEntries0 ==
    SelectSeq(Pairs(obs.g0.objects_with_finalizers), LAMBDA e : e[1] \notin Reach0)

IsSuffix(a, b) == \E k \in 0..Len(b) : a = SubSeq(b, k + 1, Len(b))

\* C19: within a cycle nothing is scheduled before the finalizer phase; the
\* finalizer phase calls mark_finalizer_to_run for the about-to-die entries
\* in their registry order, each with the queue index registered with it;
\* no callback is taken from the queue before the sweep is done, and after
\* it the callbacks are taken in that order.
C19_FifoScheduling ==
    /\ pc \in {"mark", "finalizers"} => gc.run_finalizers = <<>>
    /\ pc \in {"weakrefs", "sweep"} => gc.run_finalizers = DyingEntries0
    /\ pc = "execute" => IsSuffix(gc.run_finalizers, DyingEntries0)

\* The finalizer phase has scheduled two entries of different objects, one
\* registered at allocation (queue index -1) and one by register_finalizer.
C19_Witness ==
    /\ pc = "weakrefs"
    /\ Len(gc.run_finalizers) = 2
    /\ gc.run_finalizers[1][1] # gc.run_finalizers[2][1]
    /\ gc.run_finalizers[1][2] # gc.run_finalizers[2][2]

\* C20: after the sweep of a cycle every finalizer-registered object the
\* roots did not reach, and every object reachable from it through GC
\* pointers, is in the allocation registry and has not been freed; and
\* whenever a callback is about to run, no object reachable from the object
\* it is called for has been freed.
C20_RevivedSubgraphAlive ==
    /\ Swept => \A o \in Reach(obs.g0, Dying0) :
                    o \in Range(gc.address_space) /\ gc.nfree[o] = 0
    /\ (pc = "execute" /\ gc.run_finalizers # <<>>) =>
           \A o \in Reach(gc, {Head(gc.run_finalizers)[1]}) :
               o \in Range(gc.address_space) /\ gc.nfree[o] = 0

\* A callback is about to run for an object that references an object
\* without finalizer entry which the roots did not reach; the sweep has kept
\* both and freed a third object.
C20_Witness ==
    /\ pc = "execute"
    /\ gc.run_finalizers # <<>>
    /\ \E x \in Reach(gc, {Head(gc.run_finalizers)[1]}) :
          /\ x # Head(gc.run_finalizers)[1]
          /\ x \notin Reach0 \cup FinObjs(obs.g0)
          /\ x \in Range(gc.address_space)
    /\ \E p \in Addr : FreedNow(p)

\* The objects allocated since the cycle started (by finalizer callbacks).
NewInCycle == (obs.g0.nalloc + 1)..gc.nalloc

RECURSIVE SumSize(_, _)
SumSize(g, S) ==
    IF S = {} THEN 0
    ELSE LET o == CHOOSE x \in S : TRUE IN get_size(g, o) + SumSize(g, S \ {o})

\* C21: when a collect() that passed the guard returns, prev_heap_size is
\* cur_heap_size, which is the counter the cycle started with, less what the
\* sweep subtracted for the objects it freed, plus the cost of the objects
\* finalizer callbacks allocated during the cycle; until then, and so across
\* every collect() the guard rejects, prev_heap_size is what it was when the
\* cycle started.
C21_ThresholdCommit ==
    /\ Returned =>
          /\ gc.prev_heap_size = gc.cur_heap_size
          /\ gc.prev_heap_size =
                (obs.g0.cur_heap_size
                   - SumSize(obs.g0, {o \in Registry0 : FreedNow(o)}))
                + SumCost(gc, NewInCycle)
    /\ pc \in {"mark", "finalizers", "weakrefs", "sweep", "execute"} =>
          gc.prev_heap_size = obs.g0.prev_heap_size

\* A collect() has returned whose sweep freed an object and whose finalizer
\* callback allocated one: the threshold differs from the one before.
C21_Witness ==
    /\ pc = "returned"
    /\ NewInCycle # {}
    /\ \E p \in Addr : FreedNow(p)
    /\ gc.prev_heap_size # obs.g0.prev_heap_size

\* C22: when raw_malloc fails (returns NULL) the allocation call ends with
\* the allocation-failure error (MemoryError), NULL is not put in the
\* allocation, finalizer or weak registries, no header is written through
\* it, and the collector is as the call found it (nothing is retried).
C22_RawFailureReported ==
    pc \in {"fault", "undefined"} =>
       /\ obs.exc = "MemoryError"
       /\ NULL \notin Range(gc.address_space)
       /\ NULL \notin Range(gc.objects_with_finalizers)
       /\ NULL \notin Range(gc.objects_with_weakrefs)
       /\ gc = obs.g0

\* C23: for every type id in 0..2^16-1 and every set of flags written by
\* init_gc_object, get_type_id reads the type id back and each flag reads
\* back as written; the three flags are distinct single bits above the 16
\* type-id bits; and after SURVIVING has been set or cleared, any number of
\* times, the type id and the other two flags are still as written, while
\* SURVIVING is as last set.
C23_HeaderRoundTrip ==
    /\ \A f \in GCFLAGS : f \in {2 ^ 16 * 2 ^ k : k \in 0..13}
    /\ Cardinality(GCFLAGS) = 3
    /\ pc \in {"hdr", "hdr_marked", "hdr_swept"} =>
          /\ get_type_id(gc, 1) = pend.typeid
          /\ \A f \in GCFLAGS \ {GCFLAG_SURVIVING} :
                ((gc.tid[1] \div f) % 2 = 1) <=> f \in pend.flags
          /\ ((gc.tid[1] \div GCFLAG_SURVIVING) % 2 = 1) <=>
                 \/ pc = "hdr_marked"
                 \/ pc = "hdr" /\ GCFLAG_SURVIVING \in pend.flags

\* The largest type id written with EXTERNAL and FINALIZER_REACHABLE, after
\* SURVIVING was set and cleared again.
C23_Witness ==
    /\ pc = "hdr_swept"
    /\ pend.typeid = 2 ^ 16 - 1
    /\ pend.flags = {GCFLAG_EXTERNAL, GCFLAG_FINALIZER_REACHABLE}
    /\ gc.tid[1] = (2 ^ 16 - 1) + GCFLAG_EXTERNAL + GCFLAG_FINALIZER_REACHABLE

\* The phases of a cycle in which the trace counts of its mark phases stand.
Marked == pc \in {"finalizers", "weakrefs", "sweep"}

\* How often the cycle has handed o to mark_recursive so far: once if it is
\* a root and, from the finalizer phase on, once per about-to-die entry.
SeedCount(o) ==
    (IF o \in obs.roots0 THEN 1 ELSE 0)
      + (IF pc = "finalizers" THEN 0
         ELSE Len(SelectSeq(DyingEntries0, LAMBDA e : e[1] = o)))

\* C24 as stated: an object whose SURVIVING flag is set is not traced again
\* in the cycle, whether the tracer meets it as an outgoing reference, as a
\* root or as a re-mark seed: no object is traced twice in a cycle.
C24_Original == Marked => \A o \in Addr : gc.ntrace[o] <= 1

\* C24: an object met as an outgoing reference with SURVIVING set is neither
\* pushed nor traced; a root or a re-mark seed is pushed and traced once each
\* time it is handed to mark_recursive, whatever its flag says.  So an
\* object that is no root and no seed is traced once if it is marked and
\* never otherwise, and any object is traced once per time it is a root or
\* seed and at most once more.
C24_SkipMarkedReferences ==
    Marked => \A o \in Addr :
       /\ gc.ntrace[o] >= SeedCount(o)
       /\ gc.ntrace[o] <= SeedCount(o) + 1
       /\ SeedCount(o) = 0 =>
             gc.ntrace[o] = (IF o \in Registry0 /\ surviving(gc, o) THEN 1 ELSE 0)

\* After the root mark: a root and an object that is no root point at each
\* other, the second met the first marked and did not push it; another root
\* points at itself and met itself marked.  Each was traced once.
C24_Witness ==
    /\ pc = "finalizers"
    /\ \E a \in obs.roots0, b \in Addr \ obs.roots0 :
          /\ trace(gc, a) = <<b>>
          /\ trace(gc, b) = <<a>>
          /\ gc.ntrace[a] = 1
          /\ gc.ntrace[b] = 1
    /\ \E c \in obs.roots0 : trace(gc, c) = <<c>> /\ gc.ntrace[c] = 1

\* C25: every collect() that passes the guard, on any heap, cyclic or not,
\* gets through its mark phase (each mark_recursive call ends with its work
\* stack empty) and its other phases and returns with the lock released,
\* given that the finalizer callbacks it calls return.
C25_Termination == (pc = "mark") ~> (Returned /\ ~gc.collection_lock)

\* A collect() has returned that traced, from a finalizer re-mark seed, two
\* objects pointing at each other.
C25_Witness ==
    /\ pc = "returned"
    /\ ~gc.collection_lock
    /\ \E a \in Dying0 : \E b \in Addr \ {a} :
          trace(obs.g0, a) = <<b>> /\ trace(obs.g0, b) = <<a>>

\* C26: after mark() the registry objects whose SURVIVING flag is set are
\* exactly the objects that can be reached from the roots through GC
\* pointers, and calling the tracer again on any marked object changes no
\* header (nor anything but the trace counts).
C26_MarkIsReachability ==
    pc = "finalizers" =>
       /\ {o \in Range(gc.address_space) : surviving(gc, o)} = Reach(gc, roots)
       /\ \A o \in Addr \ Range(gc.address_space) : ~surviving(gc, o)
       /\ \A o \in Range(gc.address_space) :
             surviving(gc, o) =>
                [mark_recursive(o, gc) EXCEPT !.ntrace = gc.ntrace] = gc

\* After mark(): a root, an object reached only through another object's
\* pointer, and a registry object left unmarked; each marked object points
\* at a marked object.
C26_Witness ==
    /\ pc = "finalizers"
    /\ \E a \in roots, b \in Addr \ roots, c \in Range(gc.address_space) :
          /\ trace(gc, a) = <<b>>
          /\ trace(gc, b) = <<a>>
          /\ surviving(gc, b)
          /\ ~surviving(gc, c)

\* The entries of the registry at the start of the cycle whose object the
\* roots reach, in registry order.
KeptEntries0 ==
    SelectSeq(Pairs(obs.g0.objects_with_finalizers), LAMBDA e : e[1] \in Reach0)

\* C27: from the finalizer phase to the end of the cycle the finalizer
\* registry holds exactly the entries whose object the root mark reached,
\* each with its own queue index and in their old relative order, and no
\* such object has been scheduled in the cycle.
C27_PartitionKeepsReachable ==
    pc \in {"weakrefs", "sweep", "execute"} =>
       /\ Pairs(gc.objects_with_finalizers) = KeptEntries0
       /\ \A i \in 1..Len(KeptEntries0) :
             /\ gc.nsched[KeptEntries0[i][1]] = obs.g0.nsched[KeptEntries0[i][1]]
             /\ \A j \in 1..Len(gc.run_finalizers) :
                   gc.run_finalizers[j][1] # KeptEntries0[i][1]

\* The finalizer phase kept two entries, the first registered by
\* register_finalizer and the second at allocation.
C27_Witness ==
    /\ pc = "weakrefs"
    /\ Len(KeptEntries0) = 2
    /\ KeptEntries0[1][2] = 0
    /\ KeptEntries0[2][2] = -1
    /\ KeptEntries0[1][1] # KeptEntries0[2][1]
    /\ Pairs(gc.objects_with_finalizers) = KeptEntries0

\* C28: a registered weak container that is not surviving when the weak
\* references are invalidated is no longer in the weak registry after that
\* phase and its weak slot still holds what it held; the sweep that follows
\* frees it.
C28_DeadWeakDropped ==
    /\ pc = "sweep" =>
          \A w \in WeakReg0 :
             /\ surviving(gc, w) <=> w \in Kept0
             /\ ~surviving(gc, w) =>
                   /\ w \notin Range(gc.objects_with_weakrefs)
                   /\ gc.slot[w] = obs.g0.slot[w]
    /\ Swept =>
          \A w \in WeakReg0 \ Kept0 :
             /\ FreedNow(w)
             /\ w \notin Range(gc.address_space)
             /\ w \notin Range(gc.objects_with_weakrefs)

\* After the weak phase: a dead weak container still points at its referent,
\* which the cycle keeps.
C28_Witness ==
    /\ pc = "sweep"
    /\ \E w \in WeakReg0 :
          /\ ~surviving(gc, w)
          /\ gc.slot[w] # NULL
          /\ surviving(gc, gc.slot[w])

\* C29: every entry is classified against the marks of the root mark alone:
\* a finalizer-registered object is scheduled in the cycle exactly when the
\* roots do not reach it, even when an about-to-die object registered before
\* or after it points at it; so about-to-die objects that point at each
\* other are all scheduled in the same cycle.
C29_PartitionBeforeRemark ==
    pc \in {"weakrefs", "sweep"} =>
       /\ \A o \in FinObjs(obs.g0) :
             (gc.nsched[o] > obs.g0.nsched[o]) <=> o \notin Reach0
       /\ {gc.run_finalizers[i][1] : i \in 1..Len(gc.run_finalizers)} = Dying0
       /\ \A o \in Dying0 : surviving(gc, o) /\ o \notin FinObjs(gc)

\* Two about-to-die objects point at each other and both are scheduled.
C29_Witness ==
    /\ pc = "weakrefs"
    /\ \E a \in Dying0 : \E b \in Dying0 \ {a} :
          /\ trace(obs.g0, a) = <<b>>
          /\ trace(obs.g0, b) = <<a>>
          /\ gc.nsched[a] = 1
          /\ gc.nsched[b] = 1

\* The number of entries of o in the finalizer registry of g.
EntryCount(g, o) ==
    Len(SelectSeq(Pairs(g.objects_with_finalizers), LAMBDA e : e[1] = o))

\* C30: every registered entry is scheduled once: at any time the number of
\* times an object has been scheduled is the number of entries registered
\* for it, at allocation or by register_finalizer, less its entries still in
\* the registry.  It equals the number registered once none is left, and an
\* object with a single entry is scheduled at most once.
C30_OneSchedulingPerEntry ==
    \A o \in Addr :
       /\ gc.nsched[o] + EntryCount(gc, o) = gc.nreg[o]
       /\ gc.nreg[o] = 1 => gc.nsched[o] <= 1

\* An object registered at allocation and again by register_finalizer has
\* been scheduled twice, in one cycle, and has no entry left.
C30_Witness ==
    /\ pc = "execute"
    /\ \E o \in Addr :
          /\ gc.nreg[o] = 2
          /\ gc.nsched[o] = 2
          /\ obs.g0.nsched[o] = 0
          /\ EntryCount(gc, o) = 0

\* The weak phase of the cycle is the step being taken.
WeakPhaseStep == pc = "weakrefs" /\ pc' = "sweep"

\* C31: the weak phase drops from the weak registry every surviving
\* container whose slot is NULL when the phase ends (it was NULL, or the
\* phase set it to NULL); an allocated object that is not in the weak
\* registry never gets into it again, and no later weak phase writes its
\* slot, whatever the mutator has stored there.
C31_WeakRetiredOnceNull ==
    [][/\ WeakPhaseStep =>
             \A w \in Range(gc.objects_with_weakrefs) :
                (surviving(gc, w) /\ gc'.slot[w] = NULL)
                   => w \notin Range(gc'.objects_with_weakrefs)
       /\ \A w \in 1..gc.nalloc :
             w \notin Range(gc.objects_with_weakrefs) =>
                /\ w \notin Range(gc'.objects_with_weakrefs)
                /\ WeakPhaseStep => gc'.slot[w] = gc.slot[w]]_vars

\* A cycle has ended in which a weak container that had left the registry,
\* and was given a pointer afterwards, still points at an object the cycle
\* freed.
C31_Witness ==
    /\ pc = "returned"
    /\ \E w \in Range(gc.address_space) \ Range(gc.objects_with_weakrefs) :
          /\ has_weakptr(get_type_id(gc, w))
          /\ gc.slot[w] # NULL
          /\ FreedNow(gc.slot[w])

\* C32: between the weak phase and the sweep of a cycle, for every
\* registered weak container that survives and points at an object t:
\* if the roots do not reach t and finalizer re-marking keeps it, the slot
\* still holds t and the container is still registered; if nothing keeps t
\* (as in the next cycle, when t is still unreferenced and its finalizer
\* entry is gone) the slot is NULL while t is still unfreed, and the sweep
\* that follows frees t.
C32_WeakToRevived ==
    /\ pc = "sweep" =>
          \A w \in WeakReg0 \cap Kept0 :
             LET t == obs.g0.slot[w]
             IN  t # NULL =>
                   /\ t \in Kept0 \ Reach0 =>
                         /\ gc.slot[w] = t
                         /\ w \in Range(gc.objects_with_weakrefs)
                         /\ surviving(gc, t)
                   /\ t \notin Kept0 =>
                         /\ gc.slot[w] = NULL
                         /\ gc.nfree[t] = 0
                         /\ t \in Range(gc.address_space)
    /\ pc = "execute" =>
          \A w \in WeakReg0 \cap Kept0 :
             LET t == obs.g0.slot[w]
             IN  (t # NULL /\ t \notin Kept0) => (FreedNow(t) /\ gc.slot[w] = NULL)

\* After the weak phase: a rooted weak container still points at, and is
\* still registered for, an object the roots do not reach that is queued
\* for finalization in this cycle.
C32_Witness ==
    /\ pc = "sweep"
    /\ \E w \in WeakReg0 \cap obs.roots0 :
          /\ obs.g0.slot[w] \in Dying0
          /\ gc.nsched[obs.g0.slot[w]] = 1
          /\ gc.slot[w] = obs.g0.slot[w]
          /\ w \in Range(gc.objects_with_weakrefs)

\* The next cycle: the container is registered and points at an object that
\* was scheduled in an earlier cycle and is unreferenced; the weak phase has
\* set the slot to NULL and the object is not yet freed.
C32_WitnessNext ==
    /\ pc = "sweep"
    /\ \E w \in WeakReg0 \cap obs.roots0 :
          /\ obs.g0.slot[w] # NULL
          /\ obs.g0.nsched[obs.g0.slot[w]] = 1
          /\ obs.g0.slot[w] \notin Kept0
          /\ gc.slot[w] = NULL
          /\ gc.nfree[obs.g0.slot[w]] = 0

\* C33: every object in the finalizer registry and every object in the weak
\* registry is in the allocation registry or immortal, and unfreed; after a
\* completed collect() the slot of every object in the weak registry holds
\* an unfreed object, and at any time it holds NULL or an unfreed object.
\* So the partition and the weak invalidation of the next cycle read no
\* header of a freed object.
C33_NoRegistryDangles ==
    /\ \A o \in FinObjs(gc) \cup Range(gc.objects_with_weakrefs) :
          /\ o \in Range(gc.address_space) \cup Immortals
          /\ gc.nfree[o] = 0
    /\ \A w \in Range(gc.objects_with_weakrefs) :
          /\ gc.slot[w] # NULL =>
                /\ gc.slot[w] \in Range(gc.address_space) \cup Immortals
                /\ gc.nfree[gc.slot[w]] = 0
          /\ (Swept /\ w \in WeakReg0) => gc.slot[w] # NULL

\* A collect() that freed an object has returned and has left a container
\* in the weak registry that points at an object with an entry in the
\* finalizer registry.
C33_Witness ==
    /\ pc = "returned"
    /\ \E p \in Addr : FreedNow(p)
    /\ \E w \in Range(gc.objects_with_weakrefs) : gc.slot[w] \in FinObjs(gc)

\* An object is in the allocation registry, unfreed, with SURVIVING clear.
SafeNew(g, o) ==
    /\ o \in Range(g.address_space)
    /\ g.nfree[o] = 0
    /\ ~surviving(g, o)

\* C34: no object is allocated in a cycle before its sweep is over; every
\* object a finalizer callback allocates in the cycle is, from then until
\* the cycle has ended, in the allocation registry, unfreed and unmarked;
\* and the object whose allocation called collect() is created in the step
\* after collect() has returned, with the lock free, and is then in the
\* registry, unfreed and unmarked, with nothing freed in that step.
C34_NewObjectsSafe ==
    /\ [](/\ pc \in {"mark", "finalizers", "weakrefs", "sweep"} => NewInCycle = {}
          /\ pc \in {"execute", "returned", "alloc"} =>
                \A o \in NewInCycle : SafeNew(gc, o))
    /\ [][pc = "alloc" =>
             /\ ~gc.collection_lock
             /\ gc'.nalloc = gc.nalloc + 1
             /\ SafeNew(gc', gc'.nalloc)
             /\ gc'.nfree = gc.nfree
             /\ \A o \in NewInCycle : SafeNew(gc', o)]_vars

\* collect() was called by an allocation and has returned, the allocation
\* has not been made yet; a finalizer callback allocated an object during
\* the cycle, which is in the registry.
C34_Witness ==
    /\ pc = "alloc"
    /\ pend.kind # "none"
    /\ NewInCycle # {}
    /\ gc.nalloc \in Range(gc.address_space)

\* C35: whenever control is in the mutator, or in an allocation whose
\* collect() has returned, collection_lock is False, so the guard lets a
\* collect() of the mutator through; the lock is held exactly while a
\* collect() that passed the guard is in progress.
C35_LockFreeInMutator ==
    /\ (AtMutator \/ pc = "alloc") => ~collect_locked(gc)
    /\ pc \in {"mark", "finalizers", "weakrefs", "sweep", "execute"} => gc.collection_lock

\* Back in the mutator after allocations, a collection that freed an object
\* and one that ran a finalizer: the lock is free.
C35_Witness ==
    /\ pc = "mutator"
    /\ obs.collected
    /\ ~gc.collection_lock
    /\ \E o \in Addr : gc.nfree[o] = 1
    /\ \E o \in Addr : gc.nsched[o] = 1

\* collect() returns in the step being taken.
ReturnStep == pc = "execute" /\ pc' \in {"returned", "alloc"}

\* C36: prev_heap_size changes only when a collect() returns, and then to
\* the value cur_heap_size has at that moment, however small; once a cycle
\* has completed, an allocation of the mutator is made without collect()
\* only if its cost plus cur_heap_size is at most heap_growth_factor times
\* that value, so while that value is 0 no allocation of the mutator is
\* made without a collection first.
C36_NoThresholdFloor ==
    [][/\ gc'.prev_heap_size # gc.prev_heap_size => ReturnStep
       /\ ReturnStep => gc'.prev_heap_size = gc.cur_heap_size
       /\ (MallocDirect /\ obs.collected) =>
             gc'.cur_heap_size <= heap_growth_factor * gc.prev_heap_size
       /\ (AtMutator /\ obs.collected /\ gc.prev_heap_size = 0) =>
             gc'.nalloc = gc.nalloc]_vars

\* A cycle that started with the threshold at 0, called by an allocation,
\* has ended with a counter that is not 0 and less than initial_heap_size.
C36_Witness ==
    /\ pc = "alloc"
    /\ obs.g0.prev_heap_size = 0
    /\ gc.prev_heap_size > 0
    /\ gc.prev_heap_size < initial_heap_size

\* C37: an allocated object is immortal (it carries EXTERNAL) exactly when
\* it is neither in the allocation registry nor freed, and then it carries
\* SURVIVING and its type id as written.  A sweep leaves every object
\* outside the registry as it is; of a surviving registry object it clears
\* the SURVIVING bit and changes nothing else (type id, EXTERNAL,
\* FINALIZER_REACHABLE, fields); the other registry objects it frees.
C37_ImmortalAndSweepFrame ==
    /\ [](\A o \in 1..gc.nalloc :
            /\ has_flag(gc.tid[o], GCFLAG_EXTERNAL) <=>
                  (o \notin Range(gc.address_space) /\ gc.nfree[o] = 0)
            /\ has_flag(gc.tid[o], GCFLAG_EXTERNAL) =>
                  (surviving(gc, o) /\ get_type_id(gc, o) = 1))
    /\ [][pc = "sweep" =>
             \A o \in Addr :
                /\ o \notin Range(gc.address_space) =>
                      /\ gc'.tid[o] = gc.tid[o]
                      /\ gc'.slot[o] = gc.slot[o]
                      /\ gc'.length[o] = gc.length[o]
                      /\ gc'.nfree[o] = gc.nfree[o]
                /\ (o \in Range(gc.address_space) /\ surviving(gc, o)) =>
                      /\ gc'.tid[o] = gc.tid[o] - GCFLAG_SURVIVING
                      /\ get_type_id(gc', o) = get_type_id(gc, o)
                      /\ \A f \in {GCFLAG_EXTERNAL, GCFLAG_FINALIZER_REACHABLE} :
                            has_flag(gc'.tid[o], f) = has_flag(gc.tid[o], f)
                      /\ gc'.slot[o] = gc.slot[o]
                      /\ gc'.length[o] = gc.length[o]
                      /\ gc'.nfree[o] = gc.nfree[o]
                /\ (o \in Range(gc.address_space) /\ ~surviving(gc, o)) =>
                      gc'.nfree[o] = gc.nfree[o] + 1]_vars

\* A sweep is over that freed an object and kept another, next to an
\* immortal object that still carries both flags.
C37_Witness ==
    /\ pc = "execute"
    /\ \E i \in Immortals : surviving(gc, i) /\ i \notin Range(gc.address_space)
    /\ \E p \in Addr : FreedNow(p)
    /\ \E o \in Range(gc.address_space) : o \in Kept0

====
